---- MODULE Spec2Model ----
(***************************************************************************)
(* Healthcare payment inequality project: the preprocessing pipeline       *)
(* (code/preprocessing.py, run_preprocessing) and the dashboard's filter   *)
(* and metric engine (app.py).                                             *)
(*                                                                         *)
(* Conventions                                                             *)
(*   - free text whose characters matter (the raw specialty, the census    *)
(*     cells) is a sequence of one-character strings;                      *)
(*   - a DataFrame whose row order does not matter is a set of records     *)
(*     when its rows are distinct by key, a sequence otherwise;            *)
(*   - floating point values are exact rationals [num, den]; pandas' NaN   *)
(*     and inf are explicit values.                                        *)
(***************************************************************************)
EXTENDS Integers, Sequences, FiniteSets, TLC

VARIABLES
    \* ---- preprocessing.py ----
    pc,             \* position of run_preprocessing
    error,          \* the exception that ended the run, "" if none
    cms_file,       \* data/raw-data/open_payments_2023_national.csv
    acs_file,       \* data/raw-data/ACSDP1Y2023.DP03-....csv
    payments_df,    \* payments_df
    df_policy_acs,  \* df_policy_acs
    map_data,       \* map_data
    summary_csv,    \* data/derived-data/cms_acs_state_summary.csv
    detail_csv,     \* data/derived-data/cms_payments_details.csv
    \* ---- app.py ----
    df_details,         \* df_details
    df_states,          \* df_states
    selected_states,    \* selected_states
    selected_specialty, \* selected_specialty
    income_range,       \* income_range
    top_percent,        \* top_percent
    filtered_step3,     \* filtered_df after lines 86-89
    filtered_df,        \* filtered_df after lines 91-94
    total_payments,     \* total_payments
    top_1_share,        \* top_1_share
    record_count,       \* len(filtered_df), line 114
    lorenz_df           \* lorenz_df, <<>> when the branch of line 134 is not taken

pipe_vars == <<pc, error, cms_file, acs_file, payments_df, df_policy_acs,
               map_data, summary_csv, detail_csv>>
app_vars == <<df_details, df_states, selected_states, selected_specialty,
              income_range, top_percent, filtered_step3, filtered_df,
              total_payments, top_1_share, record_count, lorenz_df>>
vars == <<pipe_vars, app_vars>>

(***************************************************************************)
(* Bounds                                                                  *)
(***************************************************************************)
MaxPayments == 2    \* rows of the raw payments file
MaxRows == 4        \* rows of the detail table the dashboard loads

(***************************************************************************)
(* Values                                                                  *)
(***************************************************************************)
NaN == "NaN"                            \* missing value of a label column
NA == [na |-> TRUE, s |-> <<>>]         \* missing value of a text column
Str(s) == [na |-> FALSE, s |-> s]
NaNNum == [nan |-> TRUE, v |-> 0]       \* float NaN
Num(n) == [nan |-> FALSE, v |-> n]
NaNRatio == [kind |-> "nan", num |-> 0, den |-> 1]
InfRatio == [kind |-> "inf", num |-> 0, den |-> 1]
Ratio(n, d) == [kind |-> "num", num |-> n, den |-> d]
NoFile == [exists |-> FALSE]

RECURSIVE SumSeq(_)
SumSeq(s) == IF s = <<>> THEN 0 ELSE Head(s) + SumSeq(Tail(s))

RECURSIVE SumAmount(_)
SumAmount(rows) ==
    IF rows = {} THEN 0
    ELSE LET r == CHOOSE x \in rows : TRUE
         IN r.payment_amount + SumAmount(rows \ {r})

SeqToSet(s) == {s[i] : i \in 1..Len(s)}

(***************************************************************************)
(* STEP 3: cleaning of the payments                                        *)
(***************************************************************************)
Whitespace == {" "}

\* pandas.read_csv: an empty field is read as NaN
ReadCsvText(t) == IF t = <<>> THEN NA ELSE Str(t)
ReadCsvLabel(l) == IF l = "" THEN NaN ELSE l

\* str.split(sep): the segments between the separators, empty ones included
RECURSIVE Split(_, _)
Split(s, sep) ==
    IF \A i \in 1..Len(s) : s[i] # sep THEN <<s>>
    ELSE LET k == CHOOSE i \in 1..Len(s) :
                      s[i] = sep /\ \A j \in 1..(i - 1) : s[j] # sep
         IN <<SubSeq(s, 1, k - 1)>> \o Split(SubSeq(s, k + 1, Len(s)), sep)

\* str.strip(): leading and trailing whitespace removed
RECURSIVE LStrip(_)
LStrip(s) == IF s # <<>> /\ Head(s) \in Whitespace THEN LStrip(Tail(s)) ELSE s
RECURSIVE RStrip(_)
RStrip(s) ==
    IF s # <<>> /\ s[Len(s)] \in Whitespace THEN RStrip(SubSeq(s, 1, Len(s) - 1))
    ELSE s
Strip(s) == RStrip(LStrip(s))

UnknownText == <<"U", "n", "k", "n", "o", "w", "n">>

\* lines 59-65: .str.split("|").str[-1].str.strip().fillna("Unknown")
SpecialtyClean(specialty) ==
    IF specialty.na THEN UnknownText
    ELSE LET segments == Split(specialty.s, "|")
         IN Strip(segments[Len(segments)])

\* lines 68-80
nature_map ==
    [k \in {"Compensation for services other than consulting, including serving as faculty or as a speaker at a venue other than a continuing education program",
            "Consulting Fee", "Food and Beverage", "Travel and Lodging",
            "Royalty or License", "Honoraria", "Education", "Grant",
            "Acquisitions", "Entertainment",
            "Long term medical supply or device loan"} |->
        CASE k = "Consulting Fee" -> "Consulting"
          [] k = "Food and Beverage" -> "Food & Beverage"
          [] k = "Travel and Lodging" -> "Travel & Lodging"
          [] k = "Royalty or License" -> "Royalty / License"
          [] k = "Honoraria" -> "Honoraria"
          [] k = "Education" -> "Education"
          [] k = "Grant" -> "Grant"
          [] k = "Acquisitions" -> "Acquisitions"
          [] k = "Entertainment" -> "Entertainment"
          [] k = "Long term medical supply or device loan" -> "Device / Supply Loan"
          [] OTHER -> "Non-consulting professional services"]

\* lines 83-87: .map(nature_map).fillna("Other")
PaymentTypeClean(payment_type) ==
    IF payment_type \in DOMAIN nature_map THEN nature_map[payment_type] ELSE "Other"

\* line 88
StateClean(state) == IF state = NaN THEN "Unknown" ELSE state

CmsColumns == {"Covered_Recipient_Specialty_1", "Total_Amount_of_Payment_USDollars",
               "Nature_of_Payment_or_Transfer_of_Value", "Recipient_State"}

\* lines 47-88 applied to one row that passed the filter of line 47
CleanRow(r) ==
    [state |-> StateClean(r.Recipient_State),
     specialty |-> r.Covered_Recipient_Specialty_1,
     payment_type |-> r.Nature_of_Payment_or_Transfer_of_Value,
     payment_amount |-> r.Total_Amount_of_Payment_USDollars,
     specialty_clean |-> SpecialtyClean(r.Covered_Recipient_Specialty_1),
     payment_type_clean |-> PaymentTypeClean(r.Nature_of_Payment_or_Transfer_of_Value)]

\* line 47: payments_df[payments_df[amount] > 0]
RECURSIVE PositiveRows(_)
PositiveRows(rows) ==
    IF rows = <<>> THEN <<>>
    ELSE IF Head(rows).Total_Amount_of_Payment_USDollars > 0
         THEN <<Head(rows)>> \o PositiveRows(Tail(rows))
         ELSE PositiveRows(Tail(rows))

CleanRows(rows) == [i \in 1..Len(PositiveRows(rows)) |-> CleanRow(PositiveRows(rows)[i])]

\* a column read from a file in which every field is empty has dtype float64,
\* and Series.str raises AttributeError on it (line 61)
SpecialtyIsFloatColumn(rows) ==
    rows # <<>> /\ \A i \in 1..Len(rows) : rows[i].Covered_Recipient_Specialty_1.na

(***************************************************************************)
(* STEP 4: the census table                                                *)
(***************************************************************************)
IncomeFragment == "Median household income (dollars)"
HouseholdFragment == "Total households"

\* a label is the sequence of the pieces of text it is made of; `fragment in
\* label` holds when one of the pieces is the fragment
Contains(label, fragment) == \E i \in 1..Len(label) : label[i] = fragment

\* [idx for idx in df_acs_raw.index if fragment in idx]
RECURSIVE Matching(_, _)
Matching(labels, fragment) ==
    IF labels = <<>> THEN <<>>
    ELSE IF Contains(Head(labels), fragment)
         THEN <<Head(labels)>> \o Matching(Tail(labels), fragment)
         ELSE Matching(Tail(labels), fragment)

\* lines 102-103: [...][0]
FirstMatch(labels, fragment) == Matching(labels, fragment)[1]

\* line 98: [c for c in columns if "!!Estimate" in c]
IsEstimateColumn(c) == c.suffix = "!!Estimate"

Digits == {"0", "1", "2", "3", "4", "5", "6", "7", "8", "9"}
DigitVal(c) ==
    CASE c = "0" -> 0 [] c = "1" -> 1 [] c = "2" -> 2 [] c = "3" -> 3
      [] c = "4" -> 4 [] c = "5" -> 5 [] c = "6" -> 6 [] c = "7" -> 7
      [] c = "8" -> 8 [] c = "9" -> 9

\* .str.replace(',', '')
RECURSIVE RemoveCommas(_)
RemoveCommas(t) ==
    IF t = <<>> THEN <<>>
    ELSE IF Head(t) = "," THEN RemoveCommas(Tail(t))
         ELSE <<Head(t)>> \o RemoveCommas(Tail(t))

RECURSIVE DigitsValue(_)
DigitsValue(t) ==
    IF t = <<>> THEN 0 ELSE 10 * DigitsValue(SubSeq(t, 1, Len(t) - 1)) + DigitVal(t[Len(t)])

\* line 110: pd.to_numeric(col.astype(str).str.replace(',', ''), errors='coerce')
ToNumeric(text) ==
    LET t == RemoveCommas(text)
    IN IF t # <<>> /\ \A i \in 1..Len(t) : t[i] \in Digits
       THEN Num(DigitsValue(t)) ELSE NaNNum

\* lines 116-128
StateAbbrTable ==
    << <<"Alabama", "AL">>, <<"Alaska", "AK">>, <<"Arizona", "AZ">>,
       <<"Arkansas", "AR">>, <<"California", "CA">>, <<"Colorado", "CO">>,
       <<"Connecticut", "CT">>, <<"Delaware", "DE">>, <<"Florida", "FL">>,
       <<"Georgia", "GA">>, <<"Hawaii", "HI">>, <<"Idaho", "ID">>,
       <<"Illinois", "IL">>, <<"Indiana", "IN">>, <<"Iowa", "IA">>,
       <<"Kansas", "KS">>, <<"Kentucky", "KY">>, <<"Louisiana", "LA">>,
       <<"Maine", "ME">>, <<"Maryland", "MD">>, <<"Massachusetts", "MA">>,
       <<"Michigan", "MI">>, <<"Minnesota", "MN">>, <<"Mississippi", "MS">>,
       <<"Missouri", "MO">>, <<"Montana", "MT">>, <<"Nebraska", "NE">>,
       <<"Nevada", "NV">>, <<"New Hampshire", "NH">>, <<"New Jersey", "NJ">>,
       <<"New Mexico", "NM">>, <<"New York", "NY">>, <<"North Carolina", "NC">>,
       <<"North Dakota", "ND">>, <<"Ohio", "OH">>, <<"Oklahoma", "OK">>,
       <<"Oregon", "OR">>, <<"Pennsylvania", "PA">>, <<"Rhode Island", "RI">>,
       <<"South Carolina", "SC">>, <<"South Dakota", "SD">>, <<"Tennessee", "TN">>,
       <<"Texas", "TX">>, <<"Utah", "UT">>, <<"Vermont", "VT">>,
       <<"Virginia", "VA">>, <<"Washington", "WA">>, <<"West Virginia", "WV">>,
       <<"Wisconsin", "WI">>, <<"Wyoming", "WY">>, <<"District of Columbia", "DC">> >>

state_to_abbr ==
    [n \in {StateAbbrTable[i][1] : i \in 1..Len(StateAbbrTable)} |->
        (CHOOSE p \in SeqToSet(StateAbbrTable) : p[1] = n)[2]]

\* line 129: .map(state_to_abbr)
StateAbbr(state_name) ==
    IF state_name \in DOMAIN state_to_abbr THEN state_to_abbr[state_name] ELSE NaN

\* the row of the file with the given label
RowOf(file, label) == CHOOSE i \in 1..Len(file.labels) : file.labels[i] = label

\* lines 98-129: one row per estimate column
PolicyAcsRow(file, j, income_lbl, hh_lbl) ==
    [state_name |-> file.columns[j].geo,
     median_income |-> ToNumeric(file.cells[RowOf(file, income_lbl)][j]),
     total_households |-> ToNumeric(file.cells[RowOf(file, hh_lbl)][j]),
     state_abbr |-> StateAbbr(file.columns[j].geo)]

PolicyAcs(file) ==
    LET income_lbl == FirstMatch(file.labels, IncomeFragment)
        hh_lbl == FirstMatch(file.labels, HouseholdFragment)
    IN {PolicyAcsRow(file, j, income_lbl, hh_lbl) :
            j \in {k \in 1..Len(file.columns) : IsEstimateColumn(file.columns[k])}}

(***************************************************************************)
(* STEP 5 and STEP 6: the merge and the two derived tables                 *)
(***************************************************************************)
RECURSIVE SumPayments(_)
SumPayments(rows) ==
    IF rows = <<>> THEN 0 ELSE Head(rows).payment_amount + SumPayments(Tail(rows))

\* line 133: payments_df.groupby('state')['payment_amount'].sum().reset_index()
StateTotals(rows) ==
    {[state |-> s,
      payment_amount |-> SumPayments(SelectSeq(rows, LAMBDA r : r.state = s))] :
        s \in {rows[i].state : i \in 1..Len(rows)}}

\* line 135: float division of a Series by a Series
Divide(amount, households) ==
    IF households.nan THEN NaNRatio
    ELSE IF households.v = 0
         THEN (IF amount = 0 THEN NaNRatio ELSE InfRatio)
         ELSE Ratio(amount, households.v)

MergedRow(l, r) ==
    [state |-> l.state, payment_amount |-> l.payment_amount,
     state_name |-> r.state_name, median_income |-> r.median_income,
     total_households |-> r.total_households, state_abbr |-> r.state_abbr,
     payment_per_household |-> Divide(l.payment_amount, r.total_households)]

\* the merge with how='left': a payment state without census row is kept
MapDataLeftJoin(rows, acs) ==
    {MergedRow(l, r) : <<l, r>> \in {p \in StateTotals(rows) \X acs : p[1].state = p[2].state_abbr}}
    \cup {MergedRow(l, [state_name |-> NaN, median_income |-> NaNNum,
                        total_households |-> NaNNum, state_abbr |-> NaN]) :
            l \in {t \in StateTotals(rows) : \A r \in acs : r.state_abbr # t.state}}

\* lines 134-135: pd.merge(..., left_on='state', right_on='state_abbr', how='inner')
MapData(rows, acs) ==
    {MergedRow(l, r) : <<l, r>> \in {p \in StateTotals(rows) \X acs : p[1].state = p[2].state_abbr}}

Triple(r) == <<r.state, r.specialty_clean, r.payment_type_clean>>

\* line 141: groupby(['state', 'specialty_clean', 'payment_type_clean']).sum()
DetailData(rows) ==
    {[state |-> t[1], specialty_clean |-> t[2], payment_type_clean |-> t[3],
      payment_amount |-> SumPayments(SelectSeq(rows, LAMBDA r : Triple(r) = t))] :
        t \in {Triple(rows[i]) : i \in 1..Len(rows)}}

(***************************************************************************)
(* The raw files run_preprocessing may find                                *)
(***************************************************************************)
RawStates == {"CA", "TX", ""}
RawAmounts == {0, 100}
\* (specialty, nature of payment) as written in the file
RawDescriptions ==
    { <<<<>>, "Consulting Fee">>,
      <<<<"A">>, "Consulting Fee">>,
      <<<<"B", "|", "A">>, "Consulting Fee">>,
      <<<<"A", "|", " ">>, "">> }

RawRow(state, amount, description) ==
    [Recipient_State |-> state,
     Total_Amount_of_Payment_USDollars |-> amount,
     Covered_Recipient_Specialty_1 |-> description[1],
     Nature_of_Payment_or_Transfer_of_Value |-> description[2]]

RawRows == {RawRow(s, a, d) : s \in RawStates, a \in RawAmounts, d \in RawDescriptions}

CmsFile(columns, rows) == [exists |-> TRUE, columns |-> columns, rows |-> rows]

\* two payments of one recipient group, as in the project's own example
SampleRows ==
    << RawRow("CA", 100, <<<<"A">>, "Consulting Fee">>),
       RawRow("CA", 900, <<<<"A">>, "Consulting Fee">>) >>

CmsFiles ==
    {CmsFile(CmsColumns, rows) :
        rows \in UNION {[1..n -> RawRows] : n \in 0..MaxPayments}}
    \cup {CmsFile(CmsColumns \ {c}, SampleRows) : c \in CmsColumns}
    \cup {NoFile}

\* what the remote source serves when there is no cached file
RemoteCms == CmsFile(CmsColumns, SampleRows)

LblHouseholds == <<"    ", "Total households">>
LblHouseholdsOther == <<"    ", "Total households", " with earnings">>
LblIncome == <<"        ", "Median household income (dollars)">>
LblIncomeOther == <<"        ", "Median household income (dollars)", " - families">>
LblMean == <<"        ", "Mean household income (dollars)">>

WellFormedLabels == <<LblHouseholds, LblIncome, LblMean>>
LabelLists ==
    { WellFormedLabels,
      <<LblHouseholds, LblMean>>,
      <<LblIncome, LblMean>>,
      <<LblHouseholdsOther, LblHouseholds, LblIncome>>,
      <<LblHouseholds, LblIncomeOther, LblIncome>> }

GeoLists ==
    { <<"California">>, <<"California", "Texas">>, <<"Texas", "Puerto Rico">> }
HouseholdTexts == { <<"0">>, <<"2">>, <<"N">> }

CellText(label, column, hhCalifornia) ==
    IF ~IsEstimateColumn(column) THEN <<"*">>
    ELSE CASE label = LblHouseholds ->
                  IF column.geo = "California" THEN hhCalifornia ELSE <<"4">>
           [] label = LblHouseholdsOther -> <<"1">>
           [] label = LblIncome ->
                  IF column.geo = "California" THEN <<"9", "1", ",", "9", "0", "5">>
                  ELSE IF column.geo = "Texas" THEN <<"7", "5", ",", "7", "8", "0">>
                  ELSE <<"N">>
           [] label = LblIncomeOther -> <<"(", "X", ")">>
           [] OTHER -> <<"1", "2", "0", ",", "0", "0", "0">>

ColumnsOf(geos) ==
    [j \in 1..(2 * Len(geos)) |->
        [geo |-> geos[(j + 1) \div 2],
         suffix |-> IF j % 2 = 1 THEN "!!Estimate" ELSE "!!Margin of Error"]]

AcsFile(labels, geos, hhCalifornia, has_label_column) ==
    [exists |-> TRUE,
     has_label_column |-> has_label_column,
     labels |-> labels,
     columns |-> ColumnsOf(geos),
     cells |-> [i \in 1..Len(labels) |->
                  [j \in 1..(2 * Len(geos)) |->
                      CellText(labels[i], ColumnsOf(geos)[j], hhCalifornia)]]]

AcsFiles ==
    {AcsFile(WellFormedLabels, g, h, TRUE) : g \in GeoLists, h \in HouseholdTexts}
    \cup {AcsFile(l, <<"California", "Texas">>, <<"2">>, TRUE) : l \in LabelLists}
    \cup {AcsFile(WellFormedLabels, <<"California">>, <<"2">>, FALSE)}
    \cup {NoFile}

(***************************************************************************)
(* run_preprocessing                                                       *)
(***************************************************************************)
AppIdle ==
    /\ df_details = {} /\ df_states = {}
    /\ selected_states = {} /\ selected_specialty = {}
    /\ income_range = <<0, 100>> /\ top_percent = 100
    /\ filtered_step3 = {} /\ filtered_df = {}
    /\ total_payments = 0 /\ top_1_share = Ratio(0, 1) /\ record_count = 0
    /\ lorenz_df = <<>>

Init ==
    /\ pc = "load" /\ error = ""
    /\ cms_file \in CmsFiles
    /\ acs_file \in AcsFiles
    /\ payments_df = [columns |-> {}, rows |-> <<>>]
    /\ df_policy_acs = {} /\ map_data = {}
    /\ summary_csv = NoFile /\ detail_csv = NoFile
    /\ AppIdle

\* an exception leaves run_preprocessing
Raise(exception) == pc' = "failed" /\ error' = exception

ReadRow(r) ==
    [Recipient_State |-> ReadCsvLabel(r.Recipient_State),
     Total_Amount_of_Payment_USDollars |-> r.Total_Amount_of_Payment_USDollars,
     Covered_Recipient_Specialty_1 |-> ReadCsvText(r.Covered_Recipient_Specialty_1),
     Nature_of_Payment_or_Transfer_of_Value |->
         ReadCsvLabel(r.Nature_of_Payment_or_Transfer_of_Value)]

\* pd.read_csv of the payments file
ReadCms(file) ==
    [columns |-> file.columns, rows |-> [i \in 1..Len(file.rows) |-> ReadRow(file.rows[i])]]

\* STEP 2, lines 20-42
LoadCms ==
    /\ pc = "load"
    /\ \/ /\ cms_file.exists
          /\ payments_df' = ReadCms(cms_file)
          /\ pc' = "clean"
          /\ UNCHANGED <<error, cms_file>>
       \/ /\ ~cms_file.exists
          /\ \E fetched \in BOOLEAN :
                IF fetched
                THEN /\ payments_df' = ReadCms(RemoteCms)
                     /\ cms_file' = RemoteCms
                     /\ pc' = "clean"
                     /\ UNCHANGED error
                ELSE /\ Raise("HTTPError")
                     /\ UNCHANGED <<payments_df, cms_file>>
    /\ UNCHANGED <<acs_file, df_policy_acs, map_data, summary_csv, detail_csv>>
    /\ UNCHANGED app_vars

CleanColumns == {"state", "specialty", "payment_type", "payment_amount",
                 "specialty_clean", "payment_type_clean"}

\* STEP 3, lines 44-88
CleanCms ==
    /\ pc = "clean"
    /\ IF ~(CmsColumns \subseteq payments_df.columns)
       THEN Raise("KeyError") /\ UNCHANGED payments_df
       ELSE IF SpecialtyIsFloatColumn(payments_df.rows)
            THEN Raise("AttributeError") /\ UNCHANGED payments_df
            ELSE /\ payments_df' = [columns |-> CleanColumns,
                                    rows |-> CleanRows(payments_df.rows)]
                 /\ pc' = "acs"
                 /\ UNCHANGED error
    /\ UNCHANGED <<cms_file, acs_file, df_policy_acs, map_data, summary_csv, detail_csv>>
    /\ UNCHANGED app_vars

\* STEP 4, lines 90-129
PrepareAcs ==
    /\ pc = "acs"
    /\ IF ~acs_file.exists
       THEN Raise("FileNotFoundError") /\ UNCHANGED df_policy_acs
       ELSE IF ~acs_file.has_label_column
            THEN Raise("KeyError") /\ UNCHANGED df_policy_acs
            ELSE IF \/ Matching(acs_file.labels, IncomeFragment) = <<>>
                    \/ Matching(acs_file.labels, HouseholdFragment) = <<>>
                 THEN Raise("IndexError") /\ UNCHANGED df_policy_acs
                 ELSE /\ df_policy_acs' = PolicyAcs(acs_file)
                      /\ pc' = "merge"
                      /\ UNCHANGED error
    /\ UNCHANGED <<cms_file, acs_file, payments_df, map_data, summary_csv, detail_csv>>
    /\ UNCHANGED app_vars

CsvFile(rows) == [exists |-> TRUE, rows |-> rows]

\* STEP 5, lines 131-138; to_csv either writes the file or raises OSError
MergeAndSaveSummary ==
    /\ pc = "merge"
    /\ map_data' = MapData(payments_df.rows, df_policy_acs)
    /\ \E written \in BOOLEAN :
          IF written
          THEN /\ summary_csv' = CsvFile(map_data')
               /\ pc' = "save"
               /\ UNCHANGED error
          ELSE Raise("OSError") /\ UNCHANGED summary_csv
    /\ UNCHANGED <<cms_file, acs_file, payments_df, df_policy_acs, detail_csv>>
    /\ UNCHANGED app_vars

\* STEP 6, lines 140-143; to_csv either writes the file or raises OSError
SaveDetail ==
    /\ pc = "save"
    /\ \E written \in BOOLEAN :
          IF written
          THEN /\ detail_csv' = CsvFile(DetailData(payments_df.rows))
               /\ pc' = "done"
               /\ UNCHANGED error
          ELSE Raise("OSError") /\ UNCHANGED detail_csv
    /\ UNCHANGED <<cms_file, acs_file, payments_df, df_policy_acs, map_data, summary_csv>>
    /\ UNCHANGED app_vars

Next == LoadCms \/ CleanCms \/ PrepareAcs \/ MergeAndSaveSummary \/ SaveDetail

Spec == Init /\ [][Next]_vars

(***************************************************************************)
(* Properties of run_preprocessing                                         *)
(***************************************************************************)

\* C1: every row of the state summary has payment_per_household equal to the
\* state's summed payments divided by its total_households, and null when
\* total_households is 0.
C1_PaymentPerHousehold ==
    summary_csv.exists =>
        \A r \in summary_csv.rows :
            ~r.total_households.nan =>
                IF r.total_households.v = 0
                THEN r.payment_per_household = NaNRatio
                ELSE r.payment_per_household =
                         Ratio(r.payment_amount, r.total_households.v)

\* C2: a run that failed has written neither the state summary nor the
\* detail table.
C2_AllOrNothing ==
    pc = "failed" => ~summary_csv.exists /\ ~detail_csv.exists

\* C3: specialty_clean of every cleaned payment is the trimmed last segment
\* of the raw specialty, "Unknown" when that is empty or the raw specialty is
\* missing, and never the empty string.
C3_SpecialtyNeverEmpty ==
    payments_df.columns = CleanColumns =>
        \A i \in 1..Len(payments_df.rows) :
            LET raw == payments_df.rows[i].specialty
                clean == payments_df.rows[i].specialty_clean
                segments == Split(raw.s, "|")
                last == Strip(segments[Len(segments)])
            IN /\ clean # <<>>
               /\ raw.na => clean = UnknownText
               /\ ~raw.na => clean = (IF last = <<>> THEN UnknownText ELSE last)

\* C4: the run goes past the census step only when each of the two label
\* fragments matches exactly one row of the census table.
C4_AmbiguousLabelIsError ==
    pc \in {"merge", "save", "done"} =>
        /\ Len(Matching(acs_file.labels, IncomeFragment)) = 1
        /\ Len(Matching(acs_file.labels, HouseholdFragment)) = 1

PaidStates == {payments_df.rows[i].state : i \in 1..Len(payments_df.rows)}
CensusStates == {a.state_abbr : a \in df_policy_acs} \ {NaN}
\* the amounts of the cleaned payments of one (state, specialty, type) triple
TripleAmounts(t) ==
    [i \in 1..Len(payments_df.rows) |->
        IF Triple(payments_df.rows[i]) = t THEN payments_df.rows[i].payment_amount ELSE 0]

\* C10: after a complete run the state summary has a row for exactly the
\* states present in both the cleaned payments and the census indicators
\* (never for "Unknown"), and the detail table has exactly one row per
\* (state, specialty_clean, payment_type_clean) triple of the cleaned
\* payments, holding the sum of their amounts.
C10_InnerJoinAndDetail ==
    pc = "done" =>
        /\ {r.state : r \in summary_csv.rows} = PaidStates \cap CensusStates
        /\ \A r \in summary_csv.rows : r.state # "Unknown"
        /\ \A i \in 1..Len(payments_df.rows) :
              \E d \in detail_csv.rows :
                  /\ Triple(d) = Triple(payments_df.rows[i])
                  /\ d.payment_amount = SumSeq(TripleAmounts(Triple(d)))
        /\ \A d \in detail_csv.rows :
              /\ \E i \in 1..Len(payments_df.rows) : Triple(d) = Triple(payments_df.rows[i])
              /\ \A e \in detail_csv.rows : Triple(e) = Triple(d) => e = d

\* a complete run in which a paid state ("Unknown") has no census row but a
\* detail row, another paid state has a census row, and a census state has
\* no payment
C10_Witness ==
    /\ pc = "done"
    /\ "Unknown" \in PaidStates
    /\ summary_csv.rows # {}
    /\ CensusStates \ PaidStates # {}
    /\ \E d \in detail_csv.rows : d.state = "Unknown"

(***************************************************************************)
(* app.py: the filter and metric engine                                    *)
(***************************************************************************)
PercentileRanges == {0, 75, 100}    \* slider positions tried for income_range
TopPercents == {25, 50, 100}        \* slider positions tried for top_percent
DefaultSpecialties == {"Orthopaedic Surgery", "Internal Medicine"}    \* line 61

\* line 42: df_states[income_col].rank(pct=True) * 100, ties sharing the
\* average rank, NaN ranked NaN and not counted
IncomePercentile(rows, r) ==
    IF r.median_income.nan THEN NaNRatio
    ELSE LET valid == {x \in rows : ~x.median_income.nan}
             less == Cardinality({x \in valid : x.median_income.v < r.median_income.v})
             equal == Cardinality({x \in valid : x.median_income.v = r.median_income.v})
         IN Ratio(100 * (2 * less + equal + 1), 2 * Cardinality(valid))

\* lines 14-16 and 41-43: the summary table as the dashboard holds it
LoadStates(file) ==
    {[state |-> r.state, median_income |-> r.median_income,
      payment_per_household |-> r.payment_per_household,
      income_percentile |-> IncomePercentile(file.rows, r)] : r \in file.rows}

\* line 51
AllStates(states_df) == {r.state : r \in states_df}
\* line 60
SpecialtyOptions(details) == {r.specialty_clean : r \in details}

\* lines 78-81
WealthEligibleStates(states_df, range) ==
    {r.state : r \in {x \in states_df :
        /\ x.income_percentile.kind = "num"
        /\ x.income_percentile.num >= range[1] * x.income_percentile.den
        /\ x.income_percentile.num <= range[2] * x.income_percentile.den}}

\* the explicit selection taken as an override of the income band
FinalStateListOverride(states_df, states, range) == states

\* line 84
FinalStateList(states_df, states, range) ==
    {s \in states : s \in WealthEligibleStates(states_df, range)}

\* lines 86-89
FilterRows(details, states_df, states, specialties, range) ==
    {r \in details :
        /\ r.specialty_clean \in specialties
        /\ r.state \in FinalStateList(states_df, states, range)}

\* the payment amounts of the rows in ascending order
RECURSIVE SortedAmounts(_)
SortedAmounts(rows) ==
    IF rows = {} THEN <<>>
    ELSE LET m == CHOOSE r \in rows : \A o \in rows : r.payment_amount <= o.payment_amount
         IN <<m.payment_amount>> \o SortedAmounts(rows \ {m})

\* Series.quantile(a / b, interpolation='lower'): no interpolation
QuantileLower(rows, a, b) ==
    LET xs == SortedAmounts(rows)
    IN Ratio(b * xs[(((Len(xs) - 1) * a) \div b) + 1], b)

\* Series.quantile(a / b), linear interpolation between the order statistics
Quantile(rows, a, b) ==
    LET xs == SortedAmounts(rows)
        n == Len(xs)
        j == ((n - 1) * a) \div b
        g == ((n - 1) * a) % b
        lower == xs[j + 1]
        upper == IF j + 2 <= n THEN xs[j + 2] ELSE xs[n]
    IN Ratio(b * lower + g * (upper - lower), b)

AtLeast(amount, threshold) == amount * threshold.den >= threshold.num

\* the rows at or below the threshold kept instead of those at or above it
TopPercentFilterBelow(rows, percent) ==
    IF percent < 100 /\ Cardinality(rows) > 0
    THEN {r \in rows : r.payment_amount * Quantile(rows, 100 - percent, 100).den
                          <= Quantile(rows, 100 - percent, 100).num}
    ELSE rows

\* lines 91-94
TopPercentFilter(rows, percent) ==
    IF percent < 100 /\ Cardinality(rows) > 0
    THEN {r \in rows : AtLeast(r.payment_amount, Quantile(rows, 100 - percent, 100))}
    ELSE rows

\* the ratio taken the wrong way round
Top1ShareInverted(rows) ==
    IF SumAmount(rows) > 0
    THEN LET top_1_threshold == Quantile(rows, 99, 100)
             top_1_sum == SumAmount({r \in rows : AtLeast(r.payment_amount, top_1_threshold)})
         IN Ratio(SumAmount(rows), top_1_sum)
    ELSE Ratio(0, 1)

\* lines 103-109
Top1Share(rows) ==
    IF SumAmount(rows) > 0
    THEN LET top_1_threshold == Quantile(rows, 99, 100)
             top_1_sum == SumAmount({r \in rows : AtLeast(r.payment_amount, top_1_threshold)})
         IN Ratio(top_1_sum, SumAmount(rows))
    ELSE Ratio(0, 1)

\* np.arange(0, len) in place of np.arange(1, len + 1)
LorenzDfFromZero(rows) ==
    IF Cardinality(rows) > 0
    THEN LET xs == SortedAmounts(rows)
         IN [k \in 1..Len(xs) |->
               [payment_amount |-> xs[k],
                cum_money |-> SumSeq(SubSeq(xs, 1, k)),
                cum_percent_money |-> Ratio(SumSeq(SubSeq(xs, 1, k)), SumSeq(xs)),
                cum_percent_people |-> Ratio(k - 1, Len(xs))]]
    ELSE <<>>

\* lines 134-138
LorenzDf(rows) ==
    IF Cardinality(rows) > 0
    THEN LET xs == SortedAmounts(rows)
         IN [k \in 1..Len(xs) |->
               [payment_amount |-> xs[k],
                cum_money |-> SumSeq(SubSeq(xs, 1, k)),
                cum_percent_money |-> Ratio(SumSeq(SubSeq(xs, 1, k)), SumSeq(xs)),
                cum_percent_people |-> Ratio(k, Len(xs))]]
    ELSE <<>>

\* one run of the script below the widgets, lines 75-138
Rerun ==
    /\ filtered_step3' = FilterRows(df_details, df_states, selected_states',
                                    selected_specialty', income_range')
    /\ filtered_df' = TopPercentFilter(filtered_step3', top_percent')
    /\ total_payments' = SumAmount(filtered_df')
    /\ top_1_share' = Top1Share(filtered_df')
    /\ record_count' = Cardinality(filtered_df')
    /\ lorenz_df' = LorenzDf(filtered_df')
    /\ UNCHANGED <<df_details, df_states>>
    /\ UNCHANGED pipe_vars

(***************************************************************************)
(* The derived tables the dashboard may load                               *)
(***************************************************************************)
Amounts == {10, 20, 40}

DetailKeys ==
    << <<"CA", "Orthopaedic Surgery", "Consulting">>,
       <<"TX", "Internal Medicine", "Consulting">>,
       <<"Unknown", "Orthopaedic Surgery", "Other">>,
       <<"CA", "Internal Medicine", "Other">>,
       <<"TX", "Orthopaedic Surgery", "Consulting">>,
       <<"CA", "Orthopaedic Surgery", "Other">> >>

DetailRow(key, amount) ==
    [state |-> key[1], specialty_clean |-> key[2], payment_type_clean |-> key[3],
     payment_amount |-> amount]

\* the first Len(amounts) keys with the given amounts
DetailTable(amounts) == {DetailRow(DetailKeys[i], amounts[i]) : i \in 1..Len(amounts)}

\* four rows of selectable states with the amounts 10, 20, 30, 40
ScenarioB ==
    {DetailRow(DetailKeys[1], 10), DetailRow(DetailKeys[2], 20),
     DetailRow(DetailKeys[4], 30), DetailRow(DetailKeys[5], 40)}

\* every table holds the two default specialties: st.multiselect raises
\* when a default is not among its options
DetailTables ==
    {DetailTable(a) : a \in UNION {[1..n -> Amounts] : n \in 2..MaxRows}}
    \cup {ScenarioB}

SummaryRow(state, state_name, median_income) ==
    MergedRow([state |-> state, payment_amount |-> 100],
              [state_name |-> state_name, median_income |-> median_income,
               total_households |-> Num(2), state_abbr |-> state])

SummaryTables ==
    { {SummaryRow("CA", "California", Num(91905)), SummaryRow("TX", "Texas", Num(75780))},
      {SummaryRow("CA", "California", Num(75780)), SummaryRow("TX", "Texas", Num(75780))},
      {SummaryRow("CA", "California", NaNNum), SummaryRow("TX", "Texas", Num(75780))} }

(***************************************************************************)
(* The dashboard: first run of the script, then one rerun per widget change*)
(***************************************************************************)
AppInit ==
    /\ pc = "done" /\ error = ""
    /\ cms_file = NoFile /\ acs_file = NoFile
    /\ payments_df = [columns |-> {}, rows |-> <<>>]
    /\ df_policy_acs = {} /\ map_data = {}
    /\ summary_csv \in {CsvFile(t) : t \in SummaryTables}
    /\ detail_csv \in {CsvFile(t) : t \in DetailTables}
    /\ df_details = detail_csv.rows
    /\ df_states = LoadStates(summary_csv)
    /\ selected_states = AllStates(df_states)
    /\ selected_specialty = DefaultSpecialties
    /\ income_range = <<0, 100>>
    /\ top_percent = 100
    /\ filtered_step3 = FilterRows(df_details, df_states, selected_states,
                                   selected_specialty, income_range)
    /\ filtered_df = TopPercentFilter(filtered_step3, top_percent)
    /\ total_payments = SumAmount(filtered_df)
    /\ top_1_share = Top1Share(filtered_df)
    /\ record_count = Cardinality(filtered_df)
    /\ lorenz_df = LorenzDf(filtered_df)

\* lines 52-56
SetSelectedStates ==
    /\ \E states \in SUBSET AllStates(df_states) :
          /\ states # selected_states
          /\ selected_states' = states
    /\ UNCHANGED <<selected_specialty, income_range, top_percent>>
    /\ Rerun

\* lines 58-62
SetSelectedSpecialty ==
    /\ \E specialties \in SUBSET SpecialtyOptions(df_details) :
          /\ specialties # selected_specialty
          /\ selected_specialty' = specialties
    /\ UNCHANGED <<selected_states, income_range, top_percent>>
    /\ Rerun

\* lines 64-67
SetIncomeRange ==
    /\ \E lo \in PercentileRanges, hi \in PercentileRanges :
          /\ lo <= hi
          /\ <<lo, hi>> # income_range
          /\ income_range' = <<lo, hi>>
    /\ UNCHANGED <<selected_states, selected_specialty, top_percent>>
    /\ Rerun

\* lines 69-72
SetTopPercent ==
    /\ \E percent \in TopPercents :
          /\ percent # top_percent
          /\ top_percent' = percent
    /\ UNCHANGED <<selected_states, selected_specialty, income_range>>
    /\ Rerun

AppNext == SetSelectedStates \/ SetSelectedSpecialty \/ SetIncomeRange \/ SetTopPercent

AppSpec == AppInit /\ [][AppNext]_vars

(***************************************************************************)
(* Properties of the filter and metric engine                              *)
(***************************************************************************)
\* the state's income lies in the band: its average rank among the states
\* with an income, as a percentage of their number, is within income_range
InBand(s) ==
    /\ ~s.median_income.nan
    /\ LET ranked == {x \in df_states : ~x.median_income.nan}
           below == Cardinality({x \in ranked : x.median_income.v < s.median_income.v})
           upto == Cardinality({x \in ranked : x.median_income.v <= s.median_income.v})
       IN /\ income_range[1] * 2 * Cardinality(ranked) <= 100 * (below + upto + 1)
          /\ 100 * (below + upto + 1) <= income_range[2] * 2 * Cardinality(ranked)

\* C5: before the top-percent step a detail row is in the filtered set iff
\* its specialty is selected, its state is explicitly selected, and its
\* state's income percentile lies in [lo, hi], both ends included.
C5_FilterIsIntersection ==
    /\ filtered_step3 \subseteq df_details
    /\ \A r \in df_details :
          r \in filtered_step3 <=>
              /\ r.specialty_clean \in selected_specialty
              /\ r.state \in selected_states
              /\ \E s \in df_states : s.state = r.state /\ InBand(s)

\* a row kept with its state's percentile exactly at the lower end of the
\* band, and a row of a selected specialty and selected state left out
C5_Witness ==
    /\ \E r \in filtered_step3 : \E s \in df_states :
          /\ s.state = r.state
          /\ s.income_percentile.num = income_range[1] * s.income_percentile.den
    /\ \E r \in df_details \ filtered_step3 :
          r.specialty_clean \in selected_specialty /\ r.state \in selected_states

\* the i-th smallest payment amount of the rows
OrderStat(rows, i) ==
    CHOOSE v \in {r.payment_amount : r \in rows} :
        /\ Cardinality({r \in rows : r.payment_amount < v}) < i
        /\ i <= Cardinality({r \in rows : r.payment_amount <= v})

\* amount >= the (1 - percent/100) quantile of the rows, the quantile being
\* the point at h = (n - 1)(1 - percent/100) of the piecewise linear curve
\* through (k, k+1-th smallest amount), everything scaled by 100
AtOrAboveQuantile(amount, rows, percent) ==
    LET n == Cardinality(rows)
        h == (n - 1) * (100 - percent)
    IN \E k \in 0..(n - 1) :
          /\ 100 * k <= h
          /\ h <= 100 * (k + 1)
          /\ LET x0 == OrderStat(rows, k + 1)
                 x1 == IF k + 2 <= n THEN OrderStat(rows, k + 2) ELSE x0
             IN 100 * amount >= 100 * x0 + (h - 100 * k) * (x1 - x0)

\* C6: with top_percent < 100 and a non-empty step-3 result the filtered set
\* is the step-3 rows at or above the linear-interpolation quantile; with
\* top_percent = 100 or an empty step-3 result it is the step-3 result; the
\* amounts 10, 20, 30, 40 with top_percent = 25 leave the row of 40.
C6_TopPercentStep ==
    /\ IF top_percent < 100 /\ filtered_step3 # {}
       THEN filtered_df = {r \in filtered_step3 :
                              AtOrAboveQuantile(r.payment_amount, filtered_step3, top_percent)}
       ELSE filtered_df = filtered_step3
    /\ (filtered_step3 = ScenarioB /\ top_percent = 25) =>
          filtered_df = {DetailRow(DetailKeys[5], 40)}

\* the four rows 10, 20, 30, 40 filtered with top_percent = 25
C6_Witness ==
    /\ filtered_step3 = ScenarioB
    /\ top_percent = 25
    /\ Cardinality(filtered_df) = 1

\* C7: a rerun that lowers top_percent and leaves the other constraints
\* alone increases neither record_count nor total_payments.
C7_NarrowingNeverIncreases ==
    [][(/\ top_percent' <= top_percent
        /\ selected_states' = selected_states
        /\ selected_specialty' = selected_specialty
        /\ income_range' = income_range
        /\ df_details' = df_details
        /\ df_states' = df_states)
       => (record_count' <= record_count /\ total_payments' <= total_payments)]_vars

\* top_percent narrowed below 100 with rows dropped by the narrowing
C7_Witness ==
    /\ top_percent < 100
    /\ record_count > 0
    /\ record_count < Cardinality(filtered_step3)
    /\ total_payments < SumAmount(filtered_step3)

\* C8: top_1_share is a defined value in [0,1], 0 when total_payments is 0;
\* an empty filtered set gives total_payments 0, top_1_share 0 and
\* record_count 0.
C8_Top1ShareInUnitInterval ==
    /\ top_1_share.kind = "num"
    /\ top_1_share.den > 0
    /\ 0 <= top_1_share.num
    /\ top_1_share.num <= top_1_share.den
    /\ total_payments = 0 => top_1_share.num = 0
    /\ filtered_df = {} =>
          total_payments = 0 /\ top_1_share.num = 0 /\ record_count = 0

\* a non-empty filtered set whose top 1% holds less than everything
C8_Witness ==
    /\ filtered_df # {}
    /\ total_payments > 0
    /\ 0 < top_1_share.num
    /\ top_1_share.num < top_1_share.den

\* C9: for a non-empty filtered set the Lorenz coordinates have one pair per
\* row in ascending payment_amount order, the k-th x is k/n, y is the share
\* of the k smallest amounts, both are non-decreasing and the last pair is
\* (1,1); for an empty filtered set there are no coordinates.
C9_LorenzCurve ==
    IF filtered_df = {} THEN lorenz_df = <<>>
    ELSE LET n == Cardinality(filtered_df)
         IN /\ Len(lorenz_df) = n
            /\ \A k \in 1..n :
                  /\ lorenz_df[k].payment_amount = OrderStat(filtered_df, k)
                  /\ lorenz_df[k].cum_percent_people.den > 0
                  /\ lorenz_df[k].cum_percent_people.num * n =
                         k * lorenz_df[k].cum_percent_people.den
                  /\ lorenz_df[k].cum_percent_money.den > 0
            /\ \A k \in 1..(n - 1) :
                  /\ lorenz_df[k].payment_amount <= lorenz_df[k + 1].payment_amount
                  /\ lorenz_df[k].cum_percent_people.num * lorenz_df[k + 1].cum_percent_people.den
                         <= lorenz_df[k + 1].cum_percent_people.num * lorenz_df[k].cum_percent_people.den
                  /\ lorenz_df[k].cum_percent_money.num * lorenz_df[k + 1].cum_percent_money.den
                         <= lorenz_df[k + 1].cum_percent_money.num * lorenz_df[k].cum_percent_money.den
            /\ lorenz_df[n].cum_percent_people.num = lorenz_df[n].cum_percent_people.den
            /\ lorenz_df[n].cum_percent_money.num = lorenz_df[n].cum_percent_money.den

\* a Lorenz curve of at least three rows with unequal amounts
C9_Witness ==
    /\ Len(lorenz_df) >= 3
    /\ lorenz_df[1].payment_amount < lorenz_df[Len(lorenz_df)].payment_amount
    /\ lorenz_df[1].cum_percent_money.num < lorenz_df[1].cum_percent_money.den

====
